---- MODULE Spec2Model ----
(***************************************************************************)
(* Lost & Found Board: the persistence client (supabase.ts), the storage   *)
(* client (storage.ts), the view-state controller (App.tsx) and the item   *)
(* form / item card components, modelled as one state machine.             *)
(*                                                                         *)
(* Strings are sequences of one-character strings so that toLowerCase,     *)
(* trim and includes are computed, not assumed.  Timestamps (createdAt,    *)
(* updatedAt) are not part of the state: rows are ordered by their id,     *)
(* which the store hands out in creation order.  One handler of App is     *)
(* suspended at a time (flow); list fetches of the subscription run beside *)
(* it.                                                                     *)
(***************************************************************************)
EXTENDS Integers, Sequences, FiniteSets, TLC

\* ------------------------------------------------------------------ bounds
MaxItems == 2        \* rows the store ever creates
MaxUploads == 2      \* successful uploads to the image host
MaxFetches == 2      \* list fetches of the subscription in flight at once
MaxEvents == 1       \* change notifications on their way to the channel
SessionRows == 1     \* rows and uploads of the session that also subscribes
MaxViewItems == 3    \* length of the lists the derived view is computed for
MaxFileMB == 11      \* size of the files handed to uploadImage, in MB
MaxCompressedMB == 4 \* size of what the compression routine returns, in MB
MaxPreviews == 2     \* calls of createPreviewUrl while one form is open

\* --------------------------------------------------------------- JS values
\* Every JS value held in an item, a row or a filter is a tuple, so that
\* values of different JS types (a string, undefined, null) can be compared:
\* a string is the tuple of its characters, an enumeration literal and
\* undefined and null are one-element tuples.
UNDEF == <<"undefined">>
NULL == <<"null">>

\* a || b : undefined, null and the empty string are falsy
JsOr(a, b) == IF a \in {UNDEF, NULL, <<>>} THEN b ELSE a

Lost == <<"lost">>
Found == <<"found">>
Active == <<"active">>
Claimed == <<"claimed">>
Resolved == <<"resolved">>
All == <<"all">>

Kinds == {Lost, Found}
Statuses == {Active, Claimed, Resolved}
Filters == {All, Lost, Found}

\* secure_url of the n-th successful upload
UrlNames == <<"u1", "u2", "u3", "u4">>
Url(n) == <<UrlNames[n]>>

\* ----------------------------------------------------------------- strings
Blank == {" "}

LowerChar(c) == CASE c = "A" -> "a" [] c = "B" -> "b" [] OTHER -> c

\* String.prototype.toLowerCase
toLowerCase(s) == [i \in 1..Len(s) |-> LowerChar(s[i])]

RECURSIVE TrimLeft(_)
TrimLeft(s) == IF s # <<>> /\ Head(s) \in Blank THEN TrimLeft(Tail(s)) ELSE s

RECURSIVE TrimRight(_)
TrimRight(s) ==
  IF s # <<>> /\ s[Len(s)] \in Blank THEN TrimRight(SubSeq(s, 1, Len(s) - 1)) ELSE s

\* String.prototype.trim
trim(s) == TrimRight(TrimLeft(s))

\* String.prototype.includes
includes(s, q) ==
  \E i \in 0..(Len(s) - Len(q)) : SubSeq(s, i + 1, i + Len(q)) = q

\* ------------------------------------------------------------ types/index
\* the wire row built by itemToRow
RowFields == {"type", "title", "description", "location", "contact_info",
              "image_url", "status"}

\* a Partial<LostFoundItem> with nothing supplied
NoFields ==
  [type |-> UNDEF, title |-> UNDEF, description |-> UNDEF, location |-> UNDEF,
   contactInfo |-> UNDEF, imageUrl |-> UNDEF, status |-> UNDEF]

\* ------------------------------------------------------------ supabase.ts
rowToItem(id, row) ==
  [id |-> id,
   type |-> row.type,
   title |-> row.title,
   description |-> row.description,
   location |-> row.location,
   contactInfo |-> row.contact_info,
   imageUrl |-> JsOr(row.image_url, UNDEF),
   status |-> JsOr(row.status, Active)]

\* itemToRow giving type a default the way it gives status one
itemToRowDefaultType(item) ==
  [type |-> JsOr(item.type, Lost),
   title |-> item.title,
   description |-> item.description,
   location |-> item.location,
   contact_info |-> item.contactInfo,
   image_url |-> JsOr(item.imageUrl, NULL),
   status |-> JsOr(item.status, Active)]

itemToRow(item) ==
  [type |-> item.type,
   title |-> item.title,
   description |-> item.description,
   location |-> item.location,
   contact_info |-> item.contactInfo,
   image_url |-> JsOr(item.imageUrl, NULL),
   status |-> JsOr(item.status, Active)]

\* The request body is JSON: a property whose value is undefined is left out
\* of it, a property whose value is null is sent as null.
SentColumns(row) == {c \in RowFields : row[c] # UNDEF}

\* .update(row).eq('id', id) on the table: the columns sent overwrite the row
ApplyUpdate(old, row) ==
  [c \in RowFields |-> IF c \in SentColumns(row) THEN row[c] ELSE old[c]]

RECURSIVE SortedDesc(_)
SortedDesc(S) ==
  IF S = {} THEN <<>>
  ELSE LET m == CHOOSE x \in S : \A y \in S : y <= x
       IN <<m>> \o SortedDesc(S \ {m})

\* select('*').order('created_at', {ascending: false}) then .map(rowToItem)
SelectAll(st) ==
  LET ids == SortedDesc(DOMAIN st)
  IN [i \in 1..Len(ids) |-> rowToItem(ids[i], st[ids[i]])]

\* a getLostFoundItems that lets the failure of its select through
getLostFoundItemsRethrows(ok, rows) ==
  [resolved |-> ok, value |-> IF ok THEN SelectAll(rows) ELSE <<>>]

\* getLostFoundItems with the configuration present: what its promise
\* settles to when the select succeeded (ok) and when it reported an error or
\* threw, over the rows the store held when it answered
getLostFoundItems(ok, rows) ==
  [resolved |-> TRUE, value |-> IF ok THEN SelectAll(rows) ELSE <<>>]

\* getLostFoundItemsByType(type) with the configuration present
getLostFoundItemsByType(ok, rows, type) ==
  [resolved |-> TRUE,
   value |-> IF ok
             THEN SelectSeq(SelectAll(rows), LAMBDA item : item.type = type)
             ELSE <<>>]

\* getLostFoundItem(id) with the configuration present: the item, or null
\* (no value) when .single() finds no row, reports an error or throws
getLostFoundItem(ok, rows, id) ==
  [resolved |-> TRUE,
   value |-> IF ok /\ id \in DOMAIN rows THEN <<rowToItem(id, rows[id])>> ELSE <<>>]

\* what a read gives without the configuration, before any request
NotConfiguredRead == [resolved |-> TRUE, value |-> <<>>]

\* how a request to the store ends: accepted, an error reported, a throw
Outcomes == {"ok", "error", "throws"}

\* how addLostFoundItem, updateLostFoundItem and deleteLostFoundItem settle
WriteSettles(configured, outcome) == configured /\ outcome = "ok"

\* --------------------------------------------------------------- App.tsx
\* the effect with a search that does not lower-case the query
FilterEffectRawQuery(its, f, q) ==
  LET byType == IF f # All THEN SelectSeq(its, LAMBDA item : item.type = f) ELSE its
      byStatus == SelectSeq(byType, LAMBDA item : item.status = Active \/ f = All)
  IN IF trim(q) # <<>>
     THEN SelectSeq(byStatus, LAMBDA item :
            \/ includes(toLowerCase(item.title), q)
            \/ includes(toLowerCase(item.description), q)
            \/ includes(toLowerCase(item.location), q))
     ELSE byStatus

\* the effect without its status rule
FilterEffectAnyStatus(its, f, q) ==
  LET byType == IF f # All THEN SelectSeq(its, LAMBDA item : item.type = f) ELSE its
      query == toLowerCase(q)
  IN IF trim(q) # <<>>
     THEN SelectSeq(byType, LAMBDA item :
            \/ includes(toLowerCase(item.title), query)
            \/ includes(toLowerCase(item.description), query)
            \/ includes(toLowerCase(item.location), query))
     ELSE byType

\* the effect that derives filteredItems from items, filter and searchQuery
FilterEffect(its, f, q) ==
  LET byType == IF f # All THEN SelectSeq(its, LAMBDA item : item.type = f) ELSE its
      byStatus == SelectSeq(byType, LAMBDA item : item.status = Active \/ f = All)
      query == toLowerCase(q)
  IN IF trim(q) # <<>>
     THEN SelectSeq(byStatus, LAMBDA item :
            \/ includes(toLowerCase(item.title), query)
            \/ includes(toLowerCase(item.description), query)
            \/ includes(toLowerCase(item.location), query))
     ELSE byStatus

\* what the form can submit: the text fields and the type radio
InputA ==
  [type |-> Lost, title |-> <<"A", "b">>, description |-> <<"a">>,
   location |-> <<"b", " ">>, contactInfo |-> <<"a">>]
InputB ==
  [type |-> Found, title |-> <<"b">>, description |-> <<"B", "a">>,
   location |-> <<"a">>, contactInfo |-> <<"b">>]
FormInputs == {InputA, InputB}

\* ------------------------------------------------------------------ state
VARIABLES
  supabaseOk,      \* VITE_SUPABASE_URL and VITE_SUPABASE_ANON_KEY are set
  cloudinaryOk,    \* VITE_CLOUDINARY_CLOUD_NAME and ..._UPLOAD_PRESET are set
  imageDeleteMayFail, \* deleteImage may reject (no build of today's code does)
  realtimeOk,      \* the realtime channel of the client can be established
  store,           \* the table: id -> row
  nextId,          \* the id the store gives the next inserted row
  nextUrl,         \* the index of the next secure_url the image host returns
  events,          \* postgres_changes notifications not yet handled
  sub,             \* "none" | "active" | "unsubscribed"
  fetches,         \* getLostFoundItems().then(callback) calls in flight
  items, filteredItems, loading, showForm, editingItem, filter, searchQuery,
  isSubmitting,    \* the useState cells of App
  flow,            \* the handler of App that is suspended at an await
  upload,          \* one call of uploadImage of storage.ts, step by step
  form,            \* the state and props of the ItemForm that is open
  api              \* the last call of supabase.ts that settled, and how

vars ==
  <<supabaseOk, cloudinaryOk, imageDeleteMayFail, realtimeOk, store, nextId,
    nextUrl, events,
    sub, fetches, items, filteredItems, loading, showForm, editingItem, filter,
    searchQuery, isSubmitting, flow, upload, form, api>>

config == <<supabaseOk, cloudinaryOk, imageDeleteMayFail, realtimeOk>>
appForm == <<showForm, editingItem, isSubmitting>>
appView == <<filter, searchQuery>>

\* the state of App, its subscription and the store
page ==
  <<config, store, nextId, nextUrl, events, sub, fetches, items, filteredItems,
    loading, appForm, appView, flow>>

\* what the subscription and the handlers of App leave alone
aside == <<upload, form, api>>

FreeSlot == [st |-> "free", src |-> "none", result |-> <<>>]

IdleFlow ==
  [pc |-> "idle", op |-> "none", id |-> 0, updates |-> NoFields,
   data |-> InputA, imageUrl |-> UNDEF, image |-> FALSE, uploaded |-> UNDEF,
   issued |-> FALSE, pre |-> <<>>, post |-> <<>>, result |-> <<>>,
   rejected |-> FALSE]

\* no call of uploadImage is being followed
NoUpload ==
  [pc |-> "none", cloudName |-> TRUE, preset |-> TRUE,
   file |-> [isImage |-> TRUE, size |-> 0], pass1 |-> 0, pass2 |-> 0,
   opt |-> [ran |-> FALSE, ok |-> FALSE, size |-> 0, calls |-> 0],
   requests |-> 0, response |-> "none", out |-> UNDEF]

\* App, its subscription and the module constants, the realtime channel left
\* open
InitCore(sb, cl, df) ==
  /\ supabaseOk = sb
  /\ cloudinaryOk = cl
  /\ imageDeleteMayFail = df
  /\ nextUrl = 1
  /\ events = 0
  /\ fetches = [k \in 1..MaxFetches |-> FreeSlot]
  /\ showForm = FALSE
  /\ editingItem = <<>>
  /\ isSubmitting = FALSE
  /\ flow = IdleFlow

\* the same where the realtime channel can be established
InitApp(sb, cl, df) ==
  /\ realtimeOk = TRUE
  /\ InitCore(sb, cl, df)

\* no call of supabase.ts has settled
NoCall ==
  [op |-> "none", configured |-> TRUE, outcome |-> "none", resolved |-> TRUE,
   value |-> <<>>]

\* the formData of an ItemForm
NoData ==
  [type |-> Lost, title |-> <<>>, description |-> <<>>, location |-> <<>>,
   contactInfo |-> <<>>]

\* no ItemForm is being followed
NoForm ==
  [open |-> FALSE, hasItem |-> FALSE, itemImageUrl |-> UNDEF, formData |-> NoData,
   imagePreview |-> NULL, imageFile |-> FALSE, created |-> {}, revoked |-> {},
   awaiting |-> FALSE, invoked |-> <<>>]

\* the module constants and everything no handler has touched yet
InitBase(sb, cl, df) ==
  /\ upload = NoUpload
  /\ form = NoForm
  /\ api = NoCall
  /\ InitApp(sb, cl, df)

\* the table holds the rows rows[1], rows[2], ... created in this order
InitStore(rows) ==
  /\ store = rows
  /\ nextId = Len(rows) + 1

\* the useState cells of the list view
InitPage(s, its, f, q, ld) ==
  /\ sub = s
  /\ items = its
  /\ filter = f
  /\ searchQuery = q
  /\ filteredItems = FilterEffect(its, f, q)
  /\ loading = ld

\* App as constructed, before its mount effect, over an empty table
Init ==
  \E sb \in BOOLEAN, cl \in BOOLEAN :
    /\ InitBase(sb, cl, FALSE)
    /\ InitStore(<<>>)
    /\ InitPage("none", <<>>, All, <<>>, TRUE)

\* ------------------------------------------------- subscribeToLostFoundItems
Mounted == sub = "active"

\* the realtime channel of this client has been established and has not been
\* removed
ChannelOn == Mounted /\ supabaseOk /\ realtimeOk

\* the callback App passes to subscribeToLostFoundItems
Callback(result) ==
  /\ items' = result
  /\ filteredItems' = FilterEffect(result, filter, searchQuery)
  /\ loading' = FALSE

HasFreeSlot == \E k \in 1..MaxFetches : fetches[k].st = "free"

\* getLostFoundItems().then(callback) with the configuration present:
\* the select request is sent
StartFetch(src) ==
  LET k == CHOOSE j \in 1..MaxFetches :
             fetches[j].st = "free" /\ \A i \in 1..(j - 1) : fetches[i].st # "free"
  IN fetches' = [fetches EXCEPT ![k] = [st |-> "sent", src |-> src, result |-> <<>>]]

\* the mount effect of App: setLoading(true); subscribeToLostFoundItems(...)
\* Without the configuration getLostFoundItems resolves to [] without any
\* request, so the callback runs before any other task of the page.
Mount ==
  /\ sub = "none"
  /\ sub' = "active"
  /\ IF supabaseOk
     THEN /\ StartFetch("initial")
          /\ loading' = TRUE
          /\ UNCHANGED <<items, filteredItems>>
     ELSE /\ Callback(<<>>)
          /\ UNCHANGED fetches
  /\ UNCHANGED <<config, aside, store, nextId, nextUrl, events, appForm, appView, flow>>

\* the setInterval tick of the polling fallback (configuration absent)
PollTick ==
  /\ Mounted
  /\ ~supabaseOk
  /\ Callback(<<>>)
  /\ UNCHANGED <<config, aside, store, nextId, nextUrl, events, sub, fetches, appForm,
                 appView, flow>>

\* the postgres_changes handler of the channel
ChangeEvent ==
  /\ ChannelOn
  /\ events > 0
  /\ HasFreeSlot
  /\ events' = events - 1
  /\ StartFetch("event")
  /\ UNCHANGED <<config, aside, store, nextId, nextUrl, sub, items, filteredItems, loading,
                 appForm, appView, flow>>

\* the store answers a select: the rows as they are now, or an error, which
\* getLostFoundItems turns into []
FetchReply(k) ==
  /\ fetches[k].st = "sent"
  /\ \E ok \in BOOLEAN :
       LET r == getLostFoundItems(ok, store)
       IN fetches' = [fetches EXCEPT
                        ![k].st = IF r.resolved THEN "replied" ELSE "rejected",
                        ![k].result = r.value]
  /\ UNCHANGED <<config, aside, store, nextId, nextUrl, events, sub, items, filteredItems,
                 loading, appForm, appView, flow>>

\* the promise of getLostFoundItems resolves: .then(callback)
FetchDeliver(k) ==
  /\ fetches[k].st = "replied"
  /\ Callback(fetches[k].result)
  /\ fetches' = [fetches EXCEPT ![k] = FreeSlot]
  /\ UNCHANGED <<config, aside, store, nextId, nextUrl, events, sub, appForm, appView, flow>>

\* the cleanup of the mount effect: unsubscribe()
Unmount ==
  /\ Mounted
  /\ sub' = "unsubscribed"
  /\ events' = 0
  /\ UNCHANGED <<config, aside, store, nextId, nextUrl, fetches, items, filteredItems,
                 loading, appForm, appView, flow>>

\* ------------------------------------------------------ imageOptimizer.ts
\* file sizes are counted in MB; the two limits of optimizeImage
InputLimit == 10
Ceiling == 3

\* imageCompression threw instead of returning a file
Threw == 0 - 1

\* what one call of imageCompression can give: a file size, or a throw
CompressResults == {Threw} \cup 0..MaxCompressedMB

Failed(calls) == [ran |-> TRUE, ok |-> FALSE, size |-> 0, calls |-> calls]
Returned(size, calls) == [ran |-> TRUE, ok |-> TRUE, size |-> size, calls |-> calls]

\* an optimizeImage that returns what its second pass gave
optimizeImageTrustsSecondPass(file, r1, r2) ==
  IF ~file.isImage THEN Failed(0)
  ELSE IF file.size > InputLimit THEN Failed(0)
  ELSE IF r1 = Threw THEN Failed(1)
  ELSE IF r1 > Ceiling
       THEN IF r2 = Threw THEN Failed(2) ELSE Returned(r2, 2)
       ELSE Returned(r1, 1)

\* optimizeImage(file) when its first call of imageCompression gives r1 and
\* its second, if it makes one, r2: whether it returned, the size of the file
\* it returned and the calls of imageCompression it made
optimizeImage(file, r1, r2) ==
  IF ~file.isImage THEN Failed(0)
  ELSE IF file.size > InputLimit THEN Failed(0)
  ELSE IF r1 = Threw THEN Failed(1)
  ELSE IF r1 > Ceiling
       THEN IF r2 = Threw THEN Failed(2)
            ELSE IF r2 > Ceiling THEN Failed(2)
            ELSE Returned(r2, 2)
       ELSE Returned(r1, 1)

\* ------------------------------------------------------------- storage.ts
\* how a call of deleteImage can end; today's body has no failing path
deleteImage(imageUrl) == IF imageDeleteMayFail THEN {"ok", "error"} ELSE {"ok"}

\* how a call of uploadImage can end: a secure_url, or a throw (configuration
\* missing, optimizer failure, non-success response, no secure_url)
uploadImage == IF cloudinaryOk THEN {"ok", "error"} ELSE {"error"}

\* how an insert/update/delete of supabase.ts can end: accepted, or a throw
\* (configuration missing, error reported by the store)
WriteOutcomes == IF supabaseOk THEN {"ok", "error"} ELSE {"error"}

\* A write is notified to the channel of this client while the channel exists.
\* Notifications beyond MaxEvents are merged with the last one pending: the
\* fetch that one triggers is issued after both writes.
Notify ==
  events' = IF ChannelOn /\ events < MaxEvents THEN events + 1 ELSE events

\* uploadImageToCloudinary up to its fetch: the configuration test and
\* optimizeImage
UploadCall ==
  /\ upload.pc = "called"
  /\ upload' =
       IF ~(upload.cloudName /\ upload.preset)
       THEN [upload EXCEPT !.pc = "failed"]
       ELSE LET o == optimizeImage(upload.file, upload.pass1, upload.pass2)
            IN IF o.ok
               THEN [upload EXCEPT !.opt = o, !.pc = "fetch", !.requests = @ + 1]
               ELSE [upload EXCEPT !.opt = o, !.pc = "failed"]
  /\ UNCHANGED <<page, form, api>>

\* how the POST to the image host can end: fetch throws, a non-success
\* response, a success response without secure_url, one with it
Responses == {"throws", "notOk", "noUrl", "url"}

\* an uploadImageToCloudinary that does not test response.ok
UploadResponseUnchecked(r) ==
  /\ upload.pc = "fetch"
  /\ upload' = IF r \in {"url", "notOk"}
               THEN [upload EXCEPT !.pc = "returned", !.response = r, !.out = Url(1)]
               ELSE [upload EXCEPT !.pc = "failed", !.response = r]
  /\ UNCHANGED <<page, form, api>>

\* uploadImageToCloudinary after its fetch
UploadResponse(r) ==
  /\ upload.pc = "fetch"
  /\ upload' = IF r = "url"
               THEN [upload EXCEPT !.pc = "returned", !.response = r, !.out = Url(1)]
               ELSE [upload EXCEPT !.pc = "failed", !.response = r]
  /\ UNCHANGED <<page, form, api>>

\* ------------------------------------------------------------ ItemForm.tsx
\* the required-field test of ItemForm.handleSubmit
FormValid(data) == trim(data.title) # <<>> /\ trim(data.description) # <<>>

\* createPreviewUrl: the n-th object URL
Blob(n) == <<"blob", n>>

\* the next object URL createPreviewUrl returns
NextBlob == Cardinality(form.created) + 1

\* the guard of the revokePreviewUrl calls: imagePreview && !item?.imageUrl
RevokeGuard == form.imagePreview # NULL /\ form.itemImageUrl = UNDEF

\* revokePreviewUrl(imagePreview) under its guard
RevokePreview ==
  IF RevokeGuard /\ form.imagePreview \in {Blob(n) : n \in form.created}
  THEN form.revoked \cup {form.imagePreview[2]}
  ELSE form.revoked

\* the inputs and buttons of the form are enabled
FormEnabled == form.open /\ ~form.awaiting

\* what is typed into a text field
FieldTexts == {<<>>, <<" ">>, <<"a">>}

TextFields == {"title", "description", "location", "contactInfo"}

handleInputChange(name, value) ==
  /\ FormEnabled
  /\ form' = [form EXCEPT !.formData[name] = value]
  /\ UNCHANGED <<page, upload, api>>

\* the file input is rendered while there is no preview
handleImageChange(file) ==
  /\ FormEnabled
  /\ form.imagePreview = NULL
  /\ NextBlob <= MaxPreviews
  /\ form' = IF ~file.isImage THEN form
             ELSE IF file.size > InputLimit THEN form
             ELSE [form EXCEPT !.imageFile = TRUE,
                               !.imagePreview = Blob(NextBlob),
                               !.created = @ \cup {NextBlob}]
  /\ UNCHANGED <<page, upload, api>>

\* the remove button is rendered while there is a preview
handleRemoveImage ==
  /\ FormEnabled
  /\ form.imagePreview # NULL
  /\ form' = [form EXCEPT !.revoked = RevokePreview,
                          !.imagePreview = NULL, !.imageFile = FALSE]
  /\ UNCHANGED <<page, upload, api>>

\* the required attribute of the four text inputs: the browser does not
\* fire the submit event while one of them is the empty string
RequiredFilled(data) == \A f \in TextFields : data[f] # <<>>

\* ItemForm.handleSubmit up to its await of onSubmit(submitData)
handleSubmit ==
  /\ FormEnabled
  /\ RequiredFilled(form.formData)
  /\ form' = IF ~FormValid(form.formData)
             THEN form
             ELSE [form EXCEPT !.awaiting = TRUE, !.invoked = <<form.formData>>]
  /\ UNCHANGED <<page, upload, api>>

\* onSubmit(submitData) returns, App having closed the form, or throws, App
\* having left it open; then the rest of ItemForm.handleSubmit
OnSubmitSettled(ok) ==
  /\ form.open
  /\ form.awaiting
  /\ form' = IF ok
             THEN [form EXCEPT !.awaiting = FALSE, !.open = FALSE,
                               !.revoked = RevokePreview]
             ELSE [form EXCEPT !.awaiting = FALSE]
  /\ UNCHANGED <<page, upload, api>>

\* the cancel and close buttons: onCancel, at which App unmounts the form
onCancel ==
  /\ FormEnabled
  /\ form' = [form EXCEPT !.open = FALSE]
  /\ UNCHANGED <<page, upload, api>>

\* --------------------------------------------------- App.tsx: the handlers
Shown(id) == \E i \in 1..Len(filteredItems) : filteredItems[i].id = id

\* items.find(i => i.id === id)
Find(id) == LET i == CHOOSE j \in 1..Len(items) : items[j].id = id IN items[i]

\* an ItemCard is rendered only when the spinner is not
CardsRendered == Mounted /\ ~loading

handleAddItem ==
  /\ Mounted
  /\ editingItem' = <<>>
  /\ showForm' = TRUE
  /\ UNCHANGED <<config, aside, store, nextId, nextUrl, events, sub, fetches, items,
                 filteredItems, loading, appView, isSubmitting, flow>>

handleEditItem(id) ==
  /\ CardsRendered
  /\ Shown(id)
  /\ editingItem' = <<Find(id)>>
  /\ showForm' = TRUE
  /\ UNCHANGED <<config, aside, store, nextId, nextUrl, events, sub, fetches, items,
                 filteredItems, loading, appView, isSubmitting, flow>>

handleCloseForm ==
  /\ Mounted
  /\ showForm
  /\ IF ~isSubmitting
     THEN showForm' = FALSE /\ editingItem' = <<>>
     ELSE UNCHANGED <<showForm, editingItem>>
  /\ UNCHANGED <<config, aside, store, nextId, nextUrl, events, sub, fetches, items,
                 filteredItems, loading, appView, isSubmitting, flow>>

\* an edit that carries the image of the item being edited over when no new
\* image is attached
EditUpdatesKeepImage(data, imageUrl) ==
  [NoFields EXCEPT !.type = data.type, !.title = data.title,
                   !.description = data.description, !.location = data.location,
                   !.contactInfo = data.contactInfo,
                   !.imageUrl = IF imageUrl = UNDEF /\ editingItem # <<>>
                                THEN editingItem[1].imageUrl ELSE imageUrl]

\* the updates object handleSubmitForm builds for an edit
EditUpdates(data, imageUrl) ==
  [NoFields EXCEPT !.type = data.type, !.title = data.title,
                   !.description = data.description, !.location = data.location,
                   !.contactInfo = data.contactInfo, !.imageUrl = imageUrl]

\* the object handleSubmitForm passes to addLostFoundItem
NewItem(data, imageUrl) ==
  [type |-> data.type, title |-> data.title, description |-> data.description,
   location |-> data.location, contactInfo |-> data.contactInfo,
   imageUrl |-> imageUrl, status |-> Active]

\* the updates object of handleStatusChange
StatusUpdates(status) == [NoFields EXCEPT !.status = status]


\* handleSubmitForm up to its first await
SubmitStart(data, image) ==
  /\ Mounted
  /\ showForm
  /\ ~isSubmitting
  /\ flow.pc = "idle"
  /\ FormValid(data)
  /\ image => nextUrl <= MaxUploads
  /\ editingItem = <<>> => nextId <= MaxItems
  /\ isSubmitting' = TRUE
  /\ flow' =
       IF editingItem # <<>>
       THEN [IdleFlow EXCEPT
               !.op = "edit", !.id = editingItem[1].id, !.data = data,
               !.image = image, !.imageUrl = editingItem[1].imageUrl,
               !.updates = EditUpdates(data, UNDEF),
               !.pc = IF image
                      THEN IF editingItem[1].imageUrl # UNDEF THEN "delImage"
                           ELSE "upload"
                      ELSE "update"]
       ELSE [IdleFlow EXCEPT
               !.op = "create", !.data = data, !.image = image,
               !.updates = NewItem(data, UNDEF),
               !.pc = IF image THEN "upload" ELSE "insert"]
  /\ UNCHANGED <<config, aside, store, nextId, nextUrl, events, sub, fetches, items,
                 filteredItems, loading, showForm, editingItem, appView>>

\* a handleSubmitForm whose catch also closes the form
SubmitFailClosesForm ==
  /\ flow' = [IdleFlow EXCEPT !.rejected = TRUE]
  /\ isSubmitting' = FALSE
  /\ showForm' = FALSE
  /\ editingItem' = <<>>

\* the catch and finally of handleSubmitForm: the error is thrown on to the
\* caller, ItemForm.handleSubmit
SubmitFail ==
  /\ flow' = [IdleFlow EXCEPT !.rejected = TRUE]
  /\ isSubmitting' = FALSE
  /\ UNCHANGED <<showForm, editingItem>>

\* the catch of handleDeleteItem and of handleStatusChange
PlainFail ==
  /\ flow' = IdleFlow
  /\ UNCHANGED appForm

FlowFail == IF flow.op \in {"create", "edit"} THEN SubmitFail ELSE PlainFail

\* await deleteImage(...) returns or throws
DeleteImageDone ==
  /\ flow.pc = "delImage"
  /\ \E r \in deleteImage(flow.imageUrl) :
       IF r = "ok"
       THEN /\ flow' = IF flow.op = "edit"
                       THEN [flow EXCEPT !.pc = "upload"]
                       ELSE [flow EXCEPT !.pc = "delRow", !.issued = TRUE]
            /\ UNCHANGED appForm
       ELSE FlowFail
  /\ UNCHANGED <<config, aside, store, nextId, nextUrl, events, sub, fetches, items,
                 filteredItems, loading, appView>>

\* a handleSubmitForm that goes on without the image when uploadImage throws
UploadDoneSwallowsError ==
  /\ flow.pc = "upload"
  /\ \E r \in uploadImage :
       /\ nextUrl' = IF r = "ok" THEN nextUrl + 1 ELSE nextUrl
       /\ flow' =
            LET url == IF r = "ok" THEN Url(nextUrl) ELSE UNDEF
            IN IF flow.op = "edit"
               THEN [flow EXCEPT !.pc = "update", !.uploaded = url,
                                 !.updates = EditUpdates(flow.data, url)]
               ELSE [flow EXCEPT !.pc = "insert", !.uploaded = url,
                                 !.updates = NewItem(flow.data, url)]
       /\ UNCHANGED appForm
  /\ UNCHANGED <<config, aside, store, nextId, events, sub, fetches, items, filteredItems,
                 loading, appView>>

\* await uploadImage(...) returns the secure_url or throws
UploadDone ==
  /\ flow.pc = "upload"
  /\ \E r \in uploadImage :
       IF r = "ok"
       THEN /\ nextUrl' = nextUrl + 1
            /\ flow' =
                 IF flow.op = "edit"
                 THEN [flow EXCEPT !.pc = "update", !.uploaded = Url(nextUrl),
                                   !.updates = EditUpdates(flow.data, Url(nextUrl))]
                 ELSE [flow EXCEPT !.pc = "insert", !.uploaded = Url(nextUrl),
                                   !.updates = NewItem(flow.data, Url(nextUrl))]
            /\ UNCHANGED appForm
       ELSE /\ FlowFail
            /\ UNCHANGED nextUrl
  /\ UNCHANGED <<config, aside, store, nextId, events, sub, fetches, items, filteredItems,
                 loading, appView>>

\* a handler that goes on without calling refreshItems
RefreshNotIssued(pre, post) ==
  /\ loading' = loading
  /\ flow' = [flow EXCEPT !.pc = "refreshed", !.pre = pre, !.post = post,
                          !.result = items]

\* refreshItems up to its await: setLoading(true); getLostFoundItems().
\* pre and post keep the row as it was before and after the write that the
\* handler has just got accepted.
RefreshStart(pre, post) ==
  /\ loading' = TRUE
  /\ flow' = [flow EXCEPT !.pc = "refresh", !.pre = pre, !.post = post]

\* await addLostFoundItem(...) returns the new id or throws
InsertDone ==
  /\ flow.pc = "insert"
  /\ \E r \in WriteOutcomes :
       IF r = "ok"
       THEN /\ store' = store @@ (nextId :> itemToRow(flow.updates))
            /\ nextId' = nextId + 1
            /\ Notify
            /\ loading' = TRUE
            /\ flow' = [flow EXCEPT !.pc = "refresh", !.id = nextId,
                                    !.post = <<itemToRow(flow.updates)>>]
            /\ UNCHANGED appForm
       ELSE /\ FlowFail
            /\ UNCHANGED <<store, nextId, events, loading>>
  /\ UNCHANGED <<config, aside, nextUrl, sub, fetches, items, filteredItems, appView>>

\* updateLostFoundItem(id, updates) as the store executes it
UpdateRow(st, id, updates) ==
  IF id \in DOMAIN st
  THEN [st EXCEPT ![id] = ApplyUpdate(st[id], itemToRow(updates))]
  ELSE st

RowOf(st, id) == IF id \in DOMAIN st THEN <<st[id]>> ELSE <<>>

\* await updateLostFoundItem(...) returns or throws
UpdateDone ==
  /\ flow.pc = "update"
  /\ \E r \in WriteOutcomes :
       IF r = "ok"
       THEN /\ store' = UpdateRow(store, flow.id, flow.updates)
            /\ Notify
            /\ RefreshStart(RowOf(store, flow.id), RowOf(store', flow.id))
            /\ UNCHANGED appForm
       ELSE /\ FlowFail
            /\ UNCHANGED <<store, events, loading>>
  /\ UNCHANGED <<config, aside, nextId, nextUrl, sub, fetches, items, filteredItems,
                 appView>>

\* await deleteLostFoundItem(id) returns or throws
DeleteRowDone ==
  /\ flow.pc = "delRow"
  /\ \E r \in WriteOutcomes :
       IF r = "ok"
       THEN /\ store' = [i \in DOMAIN store \ {flow.id} |-> store[i]]
            /\ Notify
            /\ RefreshStart(RowOf(store, flow.id), <<>>)
            /\ UNCHANGED appForm
       ELSE /\ FlowFail
            /\ UNCHANGED <<store, events, loading>>
  /\ UNCHANGED <<config, aside, nextId, nextUrl, sub, fetches, items, filteredItems,
                 appView>>

\* the select of refreshItems is answered
RefreshReply ==
  /\ flow.pc = "refresh"
  /\ \E ok \in BOOLEAN :
       flow' = [flow EXCEPT !.pc = "refreshed",
                            !.result = getLostFoundItems(ok, store).value]
  /\ UNCHANGED <<config, aside, store, nextId, nextUrl, events, sub, fetches, items,
                 filteredItems, loading, appForm, appView>>

\* refreshItems after its await, and the rest of the handler that awaited it
RefreshDone ==
  /\ flow.pc = "refreshed"
  /\ items' = flow.result
  /\ filteredItems' = FilterEffect(flow.result, filter, searchQuery)
  /\ loading' = FALSE
  /\ IF flow.op \in {"create", "edit"}
     THEN showForm' = FALSE /\ editingItem' = <<>> /\ isSubmitting' = FALSE
     ELSE UNCHANGED appForm
  /\ flow' = IdleFlow
  /\ UNCHANGED <<config, aside, store, nextId, nextUrl, events, sub, fetches, appView>>

\* the "Mark as claimed" button of an ItemCard, shown while the item is active
MarkClaimed(id) ==
  /\ CardsRendered
  /\ Shown(id)
  /\ Find(id).status = Active
  /\ flow.pc = "idle"
  /\ flow' = [IdleFlow EXCEPT !.op = "status", !.id = id, !.pc = "update",
                              !.updates = StatusUpdates(Claimed)]
  /\ UNCHANGED <<config, aside, store, nextId, nextUrl, events, sub, fetches, items,
                 filteredItems, loading, appForm, appView>>

\* handleDeleteItem up to its first await; confirmed is the answer to
\* window.confirm
handleDeleteItem(id, confirmed) ==
  /\ CardsRendered
  /\ Shown(id)
  /\ flow.pc = "idle"
  /\ IF confirmed
     THEN LET hasImage == Find(id).imageUrl # UNDEF
          IN flow' = [IdleFlow EXCEPT
                        !.op = "delete", !.id = id,
                        !.imageUrl = Find(id).imageUrl,
                        !.issued = ~hasImage,
                        !.pc = IF hasImage THEN "delImage" ELSE "delRow"]
     ELSE UNCHANGED flow
  /\ UNCHANGED <<config, aside, store, nextId, nextUrl, events, sub, fetches, items,
                 filteredItems, loading, appForm, appView>>

\* what another session of the same client can send for an existing row:
\* a status change or an edit without a new image
RemoteUpdates ==
  {StatusUpdates(Claimed)} \cup {EditUpdates(d, UNDEF) : d \in FormInputs}

\* another session of the same client gets an update of a row accepted
RemoteChange(id, updates) ==
  /\ id \in DOMAIN store
  /\ store' = UpdateRow(store, id, updates)
  /\ Notify
  /\ UNCHANGED <<config, aside, nextId, nextUrl, sub, fetches, items, filteredItems,
                 loading, appForm, appView, flow>>

\* the filter buttons
SetFilter(f) ==
  /\ Mounted
  /\ filter' = f
  /\ filteredItems' = FilterEffect(items, f, searchQuery)
  /\ UNCHANGED <<config, aside, store, nextId, nextUrl, events, sub, fetches, items,
                 loading, appForm, searchQuery, flow>>

\* the search box
SetSearchQuery(q) ==
  /\ Mounted
  /\ searchQuery' = q
  /\ filteredItems' = FilterEffect(items, filter, q)
  /\ UNCHANGED <<config, aside, store, nextId, nextUrl, events, sub, fetches, items,
                 loading, appForm, filter, flow>>

\* what is typed into the search box
Queries == {<<>>, <<" ">>, <<"A">>, <<"b", " ">>}

Ids == 1..MaxItems

\* the subscription: mount, unmount, notifications and their list fetches
SubNext ==
  \/ Mount
  \/ Unmount
  \/ PollTick
  \/ ChangeEvent
  \/ \E k \in 1..MaxFetches : FetchReply(k)
  \/ \E k \in 1..MaxFetches : FetchDeliver(k)

\* the handlers of App and the steps of the one that is suspended
FlowNext ==
  \/ handleAddItem
  \/ \E id \in Ids : handleEditItem(id)
  \/ handleCloseForm
  \/ \E data \in FormInputs, image \in BOOLEAN : SubmitStart(data, image)
  \/ DeleteImageDone
  \/ UploadDone
  \/ InsertDone
  \/ UpdateDone
  \/ DeleteRowDone
  \/ RefreshReply
  \/ RefreshDone
  \/ \E id \in Ids : MarkClaimed(id)
  \/ \E id \in Ids, confirmed \in BOOLEAN : handleDeleteItem(id, confirmed)

\* One session of the client from its construction on: the subscription and
\* the handlers, against a store that only this session writes, while the
\* session creates at most SessionRows rows and uploads.
Next ==
  \/ SubNext
  \/ FlowNext /\ nextId' <= SessionRows + 1 /\ nextUrl' <= SessionRows + 1

Spec == Init /\ [][Next]_vars

\* ----------------------------------------------------------------- flows
\* The mounted page after the initial snapshot of the empty table has been
\* delivered, and from there the handlers alone.
InitFlow ==
  \E sb \in BOOLEAN, cl \in BOOLEAN :
    /\ InitBase(sb, cl, FALSE)
    /\ InitStore(<<>>)
    /\ InitPage("active", <<>>, All, <<>>, FALSE)

FlowSpec == InitFlow /\ [][FlowNext]_vars

\* the same with a deleteImage that may reject
InitFailingDelete ==
  \E cl \in BOOLEAN :
    /\ InitBase(TRUE, cl, TRUE)
    /\ InitStore(<<>>)
    /\ InitPage("active", <<>>, All, <<>>, FALSE)

FailingDeleteSpec == InitFailingDelete /\ [][FlowNext]_vars

\* ---------------------------------------------------------- subscription
\* the table when the page is opened
SubStores == {<<>>, <<itemToRow(NewItem(InputA, Url(1)))>>}

InitSub ==
  \E sb \in BOOLEAN, rt \in BOOLEAN, rows \in SubStores :
    /\ InitCore(sb, TRUE, FALSE)
    /\ realtimeOk = rt
    /\ upload = NoUpload
    /\ form = NoForm
    /\ api = NoCall
    /\ InitStore(rows)
    /\ InitPage("none", <<>>, All, <<>>, TRUE)

\* the subscription of a page whose user does nothing, while other sessions
\* write
SubSpecNext ==
  \/ SubNext
  \/ \E id \in Ids, updates \in RemoteUpdates : RemoteChange(id, updates)

\* Every select is answered or fails, and a settled promise runs its
\* reaction: the transport and the event loop guarantee both.
SubFairness ==
  \A k \in 1..MaxFetches : WF_vars(FetchReply(k)) /\ WF_vars(FetchDeliver(k))

SubSpec == InitSub /\ [][SubSpecNext]_vars /\ SubFairness

\* ----------------------------------------------------------- derived view
\* a lost item with no blank and no "a" in its text
InputC ==
  [type |-> Lost, title |-> <<"B">>, description |-> <<"b">>,
   location |-> <<"b", "B">>, contactInfo |-> <<"a">>]

ViewRows ==
  {[itemToRow(NewItem(d, UNDEF)) EXCEPT !.status = st] :
     d \in FormInputs \cup {InputC}, st \in Statuses}

ViewStores == UNION {[1..n -> ViewRows] : n \in 0..MaxViewItems}

\* the page after the snapshot of a table of up to MaxViewItems rows has been
\* delivered, the filter buttons and the search box not yet touched
InitView ==
  \E rows \in ViewStores :
    /\ InitBase(TRUE, TRUE, FALSE)
    /\ InitStore(rows)
    /\ InitPage("active", SelectAll(rows), All, <<>>, FALSE)

ViewNext ==
  \/ \E f \in Filters : SetFilter(f)
  \/ \E q \in Queries : SetSearchQuery(q)

ViewSpec == InitView /\ [][ViewNext]_vars

\* ------------------------------------------------------------ uploadImage
\* the files handed to uploadImage
Files == [isImage : BOOLEAN, size : 0..MaxFileMB]

\* one call of uploadImage, for every configuration, file and pair of results
\* of the compression routine
InitUpload ==
  \E cn \in BOOLEAN, pr \in BOOLEAN, file \in Files,
     r1 \in CompressResults, r2 \in CompressResults :
    /\ InitApp(TRUE, cn /\ pr, FALSE)
    /\ InitStore(<<>>)
    /\ InitPage("none", <<>>, All, <<>>, TRUE)
    /\ form = NoForm
    /\ api = NoCall
    /\ upload = [NoUpload EXCEPT !.pc = "called", !.cloudName = cn, !.preset = pr,
                                 !.file = file, !.pass1 = r1, !.pass2 = r2]

UploadNext ==
  \/ UploadCall
  \/ \E r \in Responses : UploadResponse(r)

UploadSpec == InitUpload /\ [][UploadNext]_vars

\* --------------------------------------------------------------- ItemForm
\* the item prop of the form in edit mode: an item of the list
FormItems ==
  {rowToItem(1, itemToRow(NewItem(d, u))) : d \in FormInputs, u \in {UNDEF, Url(1)}}

\* the form as it mounts for a new item
NewForm == [NoForm EXCEPT !.open = TRUE]

\* the form as it mounts for item
EditForm(item) ==
  [NoForm EXCEPT
     !.open = TRUE, !.hasItem = TRUE, !.itemImageUrl = item.imageUrl,
     !.formData = [type |-> JsOr(item.type, Lost),
                   title |-> JsOr(item.title, <<>>),
                   description |-> JsOr(item.description, <<>>),
                   location |-> JsOr(item.location, <<>>),
                   contactInfo |-> JsOr(item.contactInfo, <<>>)],
     !.imagePreview = JsOr(item.imageUrl, NULL)]

\* one ItemForm from its mount to its unmount, for any behaviour of the
\* onSubmit it is given
InitForm ==
  /\ InitApp(TRUE, TRUE, FALSE)
  /\ InitStore(<<>>)
  /\ InitPage("active", <<>>, All, <<>>, FALSE)
  /\ upload = NoUpload
  /\ api = NoCall
  /\ form \in {NewForm} \cup {EditForm(item) : item \in FormItems}

FormNext ==
  \/ \E name \in TextFields, value \in FieldTexts : handleInputChange(name, value)
  \/ \E kind \in Kinds : handleInputChange("type", kind)
  \/ \E file \in Files : handleImageChange(file)
  \/ handleRemoveImage
  \/ handleSubmit
  \/ \E ok \in BOOLEAN : OnSubmitSettled(ok)
  \/ onCancel

FormSpec == InitForm /\ [][FormNext]_vars

\* ------------------------------------------------------------ supabase.ts
Settled(op, outcome, r) ==
  [op |-> op, configured |-> supabaseOk, outcome |-> outcome,
   resolved |-> r.resolved, value |-> r.value]

\* a read of supabase.ts is called and settles
CallRead(op, outcome, type, id) ==
  /\ op \in {"getLostFoundItems", "getLostFoundItemsByType", "getLostFoundItem"}
  /\ api' = Settled(op, outcome,
              IF ~supabaseOk THEN NotConfiguredRead
              ELSE CASE op = "getLostFoundItems" ->
                          getLostFoundItems(outcome = "ok", store)
                     [] op = "getLostFoundItemsByType" ->
                          getLostFoundItemsByType(outcome = "ok", store, type)
                     [] op = "getLostFoundItem" ->
                          getLostFoundItem(outcome = "ok", store, id))
  /\ UNCHANGED <<page, upload, form>>

\* what the calls of the writes are given
ApiItems == {NewItem(d, UNDEF) : d \in FormInputs}

\* a write of supabase.ts is called and settles
CallWrite(op, outcome, item, id) ==
  /\ op \in {"addLostFoundItem", "updateLostFoundItem", "deleteLostFoundItem"}
  /\ op = "addLostFoundItem" => nextId <= MaxItems
  /\ LET ok == WriteSettles(supabaseOk, outcome)
     IN /\ api' = Settled(op, outcome,
                    [resolved |-> ok,
                     value |-> IF ok /\ op = "addLostFoundItem"
                               THEN <<nextId>> ELSE <<>>])
        /\ IF ~ok THEN UNCHANGED <<store, nextId>>
           ELSE CASE op = "addLostFoundItem" ->
                       /\ store' = store @@ (nextId :> itemToRow(item))
                       /\ nextId' = nextId + 1
                  [] op = "updateLostFoundItem" ->
                       /\ store' = UpdateRow(store, id, StatusUpdates(Claimed))
                       /\ UNCHANGED nextId
                  [] op = "deleteLostFoundItem" ->
                       /\ store' = [i \in DOMAIN store \ {id} |-> store[i]]
                       /\ UNCHANGED nextId
  /\ UNCHANGED <<config, nextUrl, events, sub, fetches, items, filteredItems,
                 loading, appForm, appView, flow, upload, form>>

\* the functions of supabase.ts called one after another by a caller that
\* has not subscribed, for every configuration and every way a request ends
InitApi ==
  \E sb \in BOOLEAN :
    /\ InitBase(sb, TRUE, FALSE)
    /\ InitStore(<<>>)
    /\ InitPage("none", <<>>, All, <<>>, TRUE)

ApiNext ==
  \/ \E op \in {"getLostFoundItems", "getLostFoundItemsByType", "getLostFoundItem"},
        outcome \in Outcomes, type \in Kinds, id \in Ids :
       CallRead(op, outcome, type, id)
  \/ \E op \in {"addLostFoundItem", "updateLostFoundItem", "deleteLostFoundItem"},
        outcome \in Outcomes, item \in ApiItems, id \in Ids :
       CallWrite(op, outcome, item, id)

ApiSpec == InitApi /\ [][ApiNext]_vars

\* ================================================================ claims
\* the column of the table that holds a field of LostFoundItem
Column(f) ==
  CASE f = "contactInfo" -> "contact_info"
    [] f = "imageUrl" -> "image_url"
    [] OTHER -> f

UpdateFields == {"type", "title", "description", "location", "contactInfo",
                 "imageUrl", "status"}

\* the suspended handler has had its insert or update accepted
JustWrote(op) == flow.op = op /\ flow.pc \in {"refresh", "refreshed"}

\* ... and the update met an existing row
JustUpdated(op) == JustWrote(op) /\ flow.pre # <<>> /\ flow.post # <<>>

\* C1: the stored status of a row never goes from claimed or resolved back
\* to active, whatever create, edit, status-change and delete flows run.
C1_StatusNeverBackToActive ==
  [][\A id \in DOMAIN store \cap DOMAIN store' :
       store[id].status # Active => store'[id].status # Active]_vars

\* C2: a status change that succeeded left imageUrl, kind, title,
\* description, location and contactInfo of the row as they were.
C2_StatusChangeTouchesOnlyStatus ==
  JustUpdated("status") =>
    \A c \in RowFields \ {"status"} : flow.post[1][c] = flow.pre[1][c]

\* C3: an accepted update left every field that its partial update did not
\* supply as it was; so an edit without a new image kept the imageUrl.
C3_UpdateWritesOnlySupplied ==
  \A op \in {"edit", "status"} :
    JustUpdated(op) =>
      \A f \in UpdateFields :
        flow.updates[f] = UNDEF => flow.post[1][Column(f)] = flow.pre[1][Column(f)]

CallbackRuns(k) == fetches[k].st = "replied" /\ fetches'[k].st = "free"

\* C5: once the handle returned by subscribeToLostFoundItems has been
\* invoked, the callback is never invoked again, not even by a list fetch
\* that was started before.
C5_NoCallbackAfterUnsubscribe ==
  [][sub = "unsubscribed" => \A k \in 1..MaxFetches : ~CallbackRuns(k)]_vars

\* a snapshot has been delivered: in SubSpec only the callback ends loading
Delivered == ~loading

\* the first half of C6: every call of subscribeToLostFoundItems delivers at
\* least one snapshot, with no rows in the table, without the configuration
\* and when the initial fetch fails
SubscribeDelivers == (sub # "none") ~> Delivered

\* C6: every call of subscribeToLostFoundItems delivers at least one
\* snapshot, and the snapshot of the initial fetch is delivered before any
\* snapshot fetched because of a change event.
C6_InitialSnapshotFirst ==
  /\ SubscribeDelivers
  /\ [][\A k \in 1..MaxFetches :
          CallbackRuns(k) /\ fetches[k].src = "event" =>
            \A j \in 1..MaxFetches : fetches[j].src # "initial"]_vars

\* C7: a handleDeleteItem call that the user confirmed does not end before it
\* has issued deleteLostFoundItem, also when deleteImage fails.
C7_DeleteRowAlwaysIssued ==
  [][flow.op = "delete" /\ flow'.pc = "idle" => flow.issued]_vars

\* the row the insert or update of the suspended handler sends
WireRow == itemToRow(flow.updates)

\* C8: every non-null imageUrl the client sends in an insert or update, and
\* so every one it stores, is the secure_url that uploadImage returned
\* earlier in the same create or edit flow.
C8_ImageUrlOnlyFromUpload ==
  /\ flow.pc \in {"insert", "update"} /\ WireRow.image_url \notin {NULL, UNDEF}
       => flow.image /\ flow.uploaded # UNDEF /\ WireRow.image_url = flow.uploaded
  /\ \A op \in {"create", "edit", "status"} :
       JustWrote(op) /\ flow.post # <<>> /\ flow.post[1].image_url # NULL
         => flow.uploaded # UNDEF /\ flow.post[1].image_url = flow.uploaded

\* an edit with a new image attached has stored the uploaded URL
C8_Witness ==
  JustUpdated("edit") /\ flow.uploaded # UNDEF /\ flow.post[1].image_url = flow.uploaded

\* the three stages of the derived view, each on its own
KindStage(S) == SelectSeq(S, LAMBDA item : filter = All \/ item.type = filter)

StatusStage(S) == SelectSeq(S, LAMBDA item : filter = All \/ item.status = Active)

\* case-insensitive substring match of q against title, description, location
Matches(item, q) ==
  \/ includes(toLowerCase(item.title), toLowerCase(q))
  \/ includes(toLowerCase(item.description), toLowerCase(q))
  \/ includes(toLowerCase(item.location), toLowerCase(q))

\* only the empty query passes everything
SearchStageEmpty(S) ==
  SelectSeq(S, LAMBDA item : searchQuery = <<>> \/ Matches(item, searchQuery))

\* a query that is empty once trimmed passes everything
SearchStageBlank(S) ==
  SelectSeq(S, LAMBDA item : trim(searchQuery) = <<>> \/ Matches(item, searchQuery))

\* C9 as stated: the derived view is the held list filtered by kind, by the
\* status rule and by the match of the query (the empty query passing
\* everything), in any of the six orders.
C9_ViewIsThreeStages ==
  /\ filteredItems = SearchStageEmpty(StatusStage(KindStage(items)))
  /\ filteredItems = StatusStage(SearchStageEmpty(KindStage(items)))
  /\ filteredItems = SearchStageEmpty(KindStage(StatusStage(items)))
  /\ filteredItems = KindStage(SearchStageEmpty(StatusStage(items)))
  /\ filteredItems = StatusStage(KindStage(SearchStageEmpty(items)))
  /\ filteredItems = KindStage(StatusStage(SearchStageEmpty(items)))

\* C9 as amended: the same, with every query that is empty or only blanks
\* passing everything; any other query is matched as typed, blanks included.
C9_ViewIsThreeStagesBlank ==
  /\ filteredItems = SearchStageBlank(StatusStage(KindStage(items)))
  /\ filteredItems = StatusStage(SearchStageBlank(KindStage(items)))
  /\ filteredItems = SearchStageBlank(KindStage(StatusStage(items)))
  /\ filteredItems = KindStage(SearchStageBlank(StatusStage(items)))
  /\ filteredItems = StatusStage(KindStage(SearchStageBlank(items)))
  /\ filteredItems = KindStage(StatusStage(SearchStageBlank(items)))

InList(S, item) == \E i \in 1..Len(S) : S[i] = item

\* a blank query with a kind filter: the kind stage and the status stage each
\* drop an item, and an item with no blank in its text is shown
C9_Witness ==
  /\ filter = Lost
  /\ searchQuery # <<>> /\ trim(searchQuery) = <<>>
  /\ \E i \in 1..Len(items) : items[i].type = Found
  /\ \E i \in 1..Len(items) : items[i].type = Lost /\ items[i].status # Active
  /\ \E i \in 1..Len(filteredItems) : ~Matches(filteredItems[i], searchQuery)

\* C10: with the filter lost or found only active items are shown; with the
\* filter all and an empty query every held item is shown.
C10_VisibilityByStatus ==
  /\ filter \in {Lost, Found} =>
       \A i \in 1..Len(filteredItems) : filteredItems[i].status = Active
  /\ filter = All /\ searchQuery = <<>> => filteredItems = items

\* a claimed lost item is held and the lost view does not show it
C10_Witness ==
  /\ filter = Lost
  /\ \E i \in 1..Len(items) :
       /\ items[i].type = Lost
       /\ items[i].status = Claimed
       /\ ~InList(filteredItems, items[i])

\* the pcs at which a handler awaits a write of supabase.ts
WritePcs == {"insert", "update", "delRow"}

\* the suspended handler is handleSubmitForm
Submitting == flow.op \in {"create", "edit"}

\* C11: in a create or edit flow the insert or update is issued only after
\* the upload of an attached image has returned its URL; a failed upload ends
\* the flow with no insert or update and no row created or changed; a created
\* row carries status active.
C11_UploadThenWrite ==
  /\ [](Submitting /\ flow.image /\ flow.pc \in WritePcs \cup {"refresh", "refreshed"}
          => flow.uploaded # UNDEF)
  /\ [][/\ Submitting /\ flow.image /\ flow'.pc \in WritePcs /\ flow.pc \notin WritePcs
             => flow.pc = "upload"
        /\ flow.pc = "upload" /\ flow' # flow /\ flow'.uploaded = UNDEF
             => flow'.pc = "idle" /\ store' = store /\ nextId' = nextId
        /\ \A id \in DOMAIN store' \ DOMAIN store : store'[id].status = Active]_vars

\* a create flow with an image has had its insert accepted
C11_Witness ==
  JustWrote("create") /\ flow.image /\ flow.uploaded # UNDEF
    /\ flow.post[1].image_url = flow.uploaded /\ flow.post[1].status = Active

\* the step in which the suspended handleSubmitForm fails
SubmitFails == Submitting /\ flow.pc # "idle" /\ flow'.pc = "idle" /\ flow.pc # "refreshed"

\* C12: a failing step of a form submission throws to ItemForm.handleSubmit,
\* leaves the form open on the same item, sets isSubmitting back to false and
\* starts nothing else; the submission closes the form and clears editingItem
\* only after its write was accepted.
C12_FailureKeepsFormOpen ==
  [][/\ SubmitFails =>
          /\ flow'.rejected
          /\ showForm /\ showForm'
          /\ editingItem' = editingItem
          /\ ~isSubmitting'
          /\ store' = store /\ nextId' = nextId /\ loading' = loading
     /\ flow' # flow /\ (showForm' # showForm \/ editingItem' # editingItem) =>
          /\ Submitting /\ flow.pc = "refreshed"
          /\ ~showForm' /\ editingItem' = <<>>]_vars

\* an edit submission has failed: the form is still open on the item
C12_Witness ==
  flow.rejected /\ flow.pc = "idle" /\ showForm /\ editingItem # <<>> /\ ~isSubmitting

\* C13: a handler whose insert, update or delete was accepted issues the list
\* fetch of refreshItems next and ends only when it has been answered; a
\* handler whose write failed ends without a list fetch.
C13_RefreshAfterWrite ==
  [][/\ flow.pc \in WritePcs /\ flow'.pc \notin {flow.pc, "idle"} =>
          flow'.pc = "refresh" /\ loading'
     /\ (store' # store \/ nextId' # nextId) => flow'.pc = "refresh" /\ loading'
     /\ flow.pc = "refresh" /\ flow' # flow => flow'.pc = "refreshed"
     /\ flow.pc # "idle" /\ flow'.pc = "idle" =>
          \/ flow.pc = "refreshed" /\ items' = flow.result /\ ~loading'
          \/ /\ flow.pc \in WritePcs \cup {"delImage", "upload"}
             /\ store' = store /\ loading' = loading /\ items' = items]_vars

\* a delete has been accepted and the list fetch of refreshItems is out
C13_Witness ==
  flow.op = "delete" /\ flow.pc = "refresh" /\ loading
    /\ flow.pre # <<>> /\ flow.id \notin DOMAIN store

\* C14: optimizeImage returns a file of at most 3 MB or fails; a file that
\* is not an image or is above 10 MB fails with no call of the compression
\* routine; the second pass runs exactly when the first gave more than 3 MB;
\* a second pass above 3 MB is a failure.
C14_OptimizedWithinCeiling ==
  upload.opt.ran =>
    LET o == upload.opt
        f == upload.file
    IN /\ o.ok => o.size <= Ceiling
       /\ ~f.isImage \/ f.size > InputLimit => ~o.ok /\ o.calls = 0
       /\ f.isImage /\ f.size <= InputLimit =>
            /\ o.calls \in {1, 2}
            /\ o.calls = 2 <=> upload.pass1 # Threw /\ upload.pass1 > Ceiling
            /\ o.calls = 1 /\ upload.pass1 # Threw => o.ok /\ o.size = upload.pass1
            /\ o.calls = 2 /\ (upload.pass2 = Threw \/ upload.pass2 > Ceiling) => ~o.ok
            /\ o.calls = 2 /\ upload.pass2 # Threw /\ upload.pass2 <= Ceiling =>
                 o.ok /\ o.size = upload.pass2
            /\ upload.pass1 = Threw => ~o.ok

\* the first pass gave more than 3 MB and the second pass was returned
C14_Witness ==
  upload.opt.ran /\ upload.opt.ok /\ upload.opt.calls = 2
    /\ upload.pass1 > Ceiling /\ upload.file.size > Ceiling

\* every condition uploadImage needs to return a URL
UploadConditions ==
  /\ upload.cloudName /\ upload.preset
  /\ upload.opt.ran /\ upload.opt.ok
  /\ upload.response = "url"

\* C15: uploadImage sends its request only with both settings present and
\* the optimizer returned; it returns a URL only on a success response that
\* carries secure_url and fails in every other case.
C15_UploadOnlyWhenAllSucceed ==
  /\ upload.requests > 0 =>
       upload.cloudName /\ upload.preset /\ upload.opt.ran /\ upload.opt.ok
  /\ upload.requests <= 1
  /\ upload.pc = "returned" => UploadConditions /\ upload.out # UNDEF
  /\ upload.pc = "failed" => ~UploadConditions /\ upload.out = UNDEF
  /\ upload.pc = "fetch" => upload.requests = 1 /\ upload.response = "none"

\* the image host answered a non-success response and uploadImage failed
C15_Witness ==
  upload.pc = "failed" /\ upload.requests = 1 /\ upload.response = "notOk"

\* the previews createPreviewUrl made that the form no longer displays
Undisplayed ==
  {n \in form.created : ~form.open \/ form.imagePreview # Blob(n)}

\* C16: every preview the form created with createPreviewUrl has been
\* released with revokePreviewUrl once it is no longer displayed or the form
\* has closed, in create mode and in edit mode.
C16_PreviewsReleased == Undisplayed \subseteq form.revoked

\* the data the last call of onSubmit was given
Invoked == form.invoked[1]

\* C17: ItemForm.handleSubmit does not invoke onSubmit while title,
\* description, location or contact information is empty or blank.
C17_BlankFieldNotSubmitted ==
  form.invoked # <<>> => \A f \in TextFields : trim(Invoked[f]) # <<>>

\* onSubmit is not invoked while title or description is empty or blank, nor
\* while location or contact information is empty
BlankTitleNotSubmitted ==
  form.invoked # <<>> =>
    /\ trim(Invoked.title) # <<>> /\ trim(Invoked.description) # <<>>
    /\ Invoked.location # <<>> /\ Invoked.contactInfo # <<>>

\* the configuration is present and the realtime channel cannot be established
TransportDown == supabaseOk /\ ~realtimeOk

\* a list fetch of the subscription has not yet run the callback
FetchPending == \E k \in 1..MaxFetches : fetches[k].st # "free"

\* the list held was read from the table and the table has changed since
ChangedSince == items # <<>> /\ items # SelectAll(store)

\* C18: while the realtime channel cannot be established, the subscription
\* polls the list, so whenever the table has changed since the list held was
\* read a delivery is still to come: a fetch is in flight or the poll timer
\* runs; and the initial delivery happens.
C18_PollsWhenTransportDown ==
  /\ SubscribeDelivers
  /\ [](Mounted /\ TransportDown /\ ChangedSince
          => FetchPending \/ ENABLED PollTick)

Reads == {"getLostFoundItems", "getLostFoundItemsByType", "getLostFoundItem"}

Writes == {"addLostFoundItem", "updateLostFoundItem", "deleteLostFoundItem"}

\* the call met a missing configuration, an error of the store or a throw
CallFailed == ~api.configured \/ api.outcome # "ok"

\* C19: a read always resolves, to the empty list or to no item when the
\* configuration is missing, the store reports an error or the transport
\* throws; a write in the same conditions rejects.
C19_ReadsSwallowWritesThrow ==
  /\ api.op \in Reads => api.resolved /\ (CallFailed => api.value = <<>>)
  /\ api.op \in Writes => (api.resolved <=> ~CallFailed)

\* the table holds a row and a getLostFoundItems whose transport threw has
\* resolved to the empty list
C19_Witness ==
  /\ api.op = "getLostFoundItems" /\ api.configured /\ api.outcome = "throws"
  /\ api.resolved /\ api.value = <<>>
  /\ store # <<>>

\* an action the client offers starts a change of item id to status st
MarkOffered(id, st) ==
  ENABLED (FlowNext /\ flow'.op = "status" /\ flow'.id = id
             /\ flow'.updates.status = st)

\* the card of an active item is rendered and no handler is suspended
ActiveCard(id) ==
  CardsRendered /\ Shown(id) /\ Find(id).status = Active /\ flow.pc = "idle"

\* C20: the client offers the user of an active item an action that marks it
\* claimed and one that marks it resolved, and offers mark-claimed only while
\* the item is active.
C20_ClaimedAndResolvedOffered ==
  \A id \in Ids :
    /\ ActiveCard(id) => MarkOffered(id, Claimed) /\ MarkOffered(id, Resolved)
    /\ MarkOffered(id, Claimed) => Find(id).status = Active

\* mark-claimed is offered for every active item and for no other
ClaimedOffered ==
  \A id \in Ids :
    /\ ActiveCard(id) => MarkOffered(id, Claimed)
    /\ MarkOffered(id, Claimed) => Find(id).status = Active

\* no sequence of the actions the client offers stores status resolved
NeverResolved == \A id \in DOMAIN store : store[id].status # Resolved

\* the channel is established, every notification has been handled and every
\* list fetch of the subscription has run the callback
Quiescent == ChannelOn /\ events = 0 /\ ~FetchPending

\* C21: with an active subscription, once the writes have been notified and
\* every list fetch in flight has completed, the list held equals the content
\* of the table: a list that was read from the table before the last write is
\* never the one left in place.
C21_HeldListConverges ==
  Quiescent /\ items # <<>> => items = SelectAll(store)

\* isSubmitting is true exactly while handleSubmitForm is suspended
SubmittingExactly == isSubmitting <=> (Submitting /\ flow.pc # "idle")

\* a handleCloseForm that runs during a submission changes nothing
CloseFormGuarded ==
  [][isSubmitting /\ handleCloseForm => UNCHANGED <<showForm, editingItem>>]_vars

\* C22: isSubmitting is true exactly from the start of a form submission to
\* its end, by success or by failure, and false after it; while it is true
\* handleCloseForm leaves showForm and editingItem alone, and as long as the
\* submission stays in flight the form stays open on the same item.
C22_SubmissionGuard ==
  /\ []SubmittingExactly
  /\ CloseFormGuarded
  /\ [][isSubmitting /\ isSubmitting'
          => showForm' = showForm /\ editingItem' = editingItem]_vars

====
